---- MODULE Spec2Model ----
(***************************************************************************)
(* Model of hub-scripts/makeTrackHubs.py: the three trackDb generators     *)
(* (create_chrom_state_trackdb, create_signal_trackdb, create_tf_trackdb)  *)
(* and the main run.  Strings are sequences of one-character strings, the  *)
(* standard output is a sequence of line records.                          *)
(***************************************************************************)
EXTENDS Integers, Sequences, FiniteSets, TLC

\* ------------------------------------------------------------------------
\* Characters and the Python string operations the script uses
\* ------------------------------------------------------------------------
DigitChars == <<"0","1","2","3","4","5","6","7","8","9">>
UpperChars == <<"A","B","C","D","E","F","G","H","I","J","K","L","M",
                "N","O","P","Q","R","S","T","U","V","W","X","Y","Z">>
LowerChars == <<"a","b","c","d","e","f","g","h","i","j","k","l","m",
                "n","o","p","q","r","s","t","u","v","w","x","y","z">>

Range(s) == { s[i] : i \in 1..Len(s) }
Min(S) == CHOOSE x \in S : \A y \in S : x <= y
Max(S) == CHOOSE x \in S : \A y \in S : y <= x

PosIn(c, tbl) == CHOOSE i \in 1..Len(tbl) : tbl[i] = c

DigitSet == Range(DigitChars)
UpperSet == Range(UpperChars)
LowerSet == Range(LowerChars)
IsDigit(c) == c \in DigitSet
IsUpperCh(c) == c \in UpperSet
IsLowerCh(c) == c \in LowerSet
IsAlnum(c) == IsDigit(c) \/ IsUpperCh(c) \/ IsLowerCh(c)
IsSpace(c) == c = " "

\* code point of a character (ASCII), as Python compares strings
Ord(c) ==
  IF IsDigit(c) THEN 47 + PosIn(c, DigitChars)
  ELSE IF IsUpperCh(c) THEN 64 + PosIn(c, UpperChars)
  ELSE IF IsLowerCh(c) THEN 96 + PosIn(c, LowerChars)
  ELSE IF c = " " THEN 32
  ELSE IF c = "-" THEN 45
  ELSE IF c = "." THEN 46
  ELSE IF c = "/" THEN 47
  ELSE 95  \* "_"

ToLower == [c \in UpperSet |-> LowerChars[PosIn(c, UpperChars)]]
ToUpper == [c \in LowerSet |-> UpperChars[PosIn(c, LowerChars)]]
LowerCh(c) == IF IsUpperCh(c) THEN ToLower[c] ELSE c
UpperCh(c) == IF IsLowerCh(c) THEN ToUpper[c] ELSE c

\* str.lower() / str.upper()
Lower(s) == [i \in 1..Len(s) |-> LowerCh(s[i])]
Upper(s) == [i \in 1..Len(s) |-> UpperCh(s[i])]

\* s[:n]
Take(s, n) == IF Len(s) <= n THEN s ELSE SubSeq(s, 1, n)
\* s[n:]  (n is the number of characters dropped)
Drop(s, n) == IF n >= Len(s) THEN <<>> ELSE SubSeq(s, n + 1, Len(s))

\* s.startswith(p, at) on the 1-based position at
MatchAt(s, at, p) ==
  /\ at >= 1
  /\ at + Len(p) - 1 <= Len(s)
  /\ \A i \in 1..Len(p) : s[at + i - 1] = p[i]

\* the same, ignoring letter case (re.IGNORECASE on a literal)
MatchAtI(s, at, p) ==
  /\ at >= 1
  /\ at + Len(p) - 1 <= Len(s)
  /\ \A i \in 1..Len(p) : LowerCh(s[at + i - 1]) = LowerCh(p[i])

\* str.endswith
EndsWith(s, p) == Len(s) >= Len(p) /\ MatchAt(s, Len(s) - Len(p) + 1, p)
EndsWithI(s, p) == Len(s) >= Len(p) /\ MatchAtI(s, Len(s) - Len(p) + 1, p)

\* "p in s"
Contains(s, p) == \E at \in 1..(Len(s) + 1) : MatchAt(s, at, p)

\* str.replace(pat, rep), every non-overlapping occurrence left to right
RECURSIVE ReplaceAll(_, _, _)
ReplaceAll(s, pat, rep) ==
  IF s = <<>> THEN <<>>
  ELSE IF MatchAt(s, 1, pat) THEN rep \o ReplaceAll(Drop(s, Len(pat)), pat, rep)
  ELSE <<s[1]>> \o ReplaceAll(Drop(s, 1), pat, rep)

\* re.sub(r'[^a-zA-Z0-9]', '', s)
RECURSIVE StripNonAlnum(_)
StripNonAlnum(s) ==
  IF s = <<>> THEN <<>>
  ELSE (IF IsAlnum(s[1]) THEN <<s[1]>> ELSE <<>>) \o StripNonAlnum(Drop(s, 1))

IsAlnumUnderscore(c) == IsAlnum(c) \/ c = "_"
\* re.sub(r'[^a-zA-Z0-9_]', '', s)
RECURSIVE StripNonWord(_)
StripNonWord(s) ==
  IF s = <<>> THEN <<>>
  ELSE (IF IsAlnumUnderscore(s[1]) THEN <<s[1]>> ELSE <<>>) \o StripNonWord(Drop(s, 1))

\* re.sub(r'[^\w-]', '_', s)
CleanId(s) ==
  [i \in 1..Len(s) |-> IF IsAlnumUnderscore(s[i]) \/ s[i] = "-" THEN s[i] ELSE "_"]

\* str.strip()
RECURSIVE LStrip(_)
LStrip(s) == IF s # <<>> /\ IsSpace(s[1]) THEN LStrip(Drop(s, 1)) ELSE s
RECURSIVE RStrip(_)
RStrip(s) ==
  IF s # <<>> /\ IsSpace(s[Len(s)]) THEN RStrip(Take(s, Len(s) - 1)) ELSE s
Strip(s) == LStrip(RStrip(s))

\* os.path.basename
Slashes(s) == { i \in 1..Len(s) : s[i] = "/" }
Basename(s) == IF Slashes(s) = {} THEN s ELSE Drop(s, Max(Slashes(s)))

\* number of leading digits of s from position at (the greedy \d+)
RECURSIVE DigitRun(_, _)
DigitRun(s, at) ==
  IF at <= Len(s) /\ IsDigit(s[at]) THEN 1 + DigitRun(s, at + 1) ELSE 0

\* int() of a digit string
RECURSIVE DigitsToInt(_)
DigitsToInt(d) ==
  IF d = <<>> THEN 0
  ELSE 10 * DigitsToInt(Take(d, Len(d) - 1)) + (PosIn(d[Len(d)], DigitChars) - 1)

\* int(re.search(r'\d+', x).group()): the first run of digits of x
FirstDigitAt(x) ==
  CHOOSE i \in 1..Len(x) : IsDigit(x[i]) /\ \A j \in 1..(i - 1) : ~IsDigit(x[j])
IntFrom(x, at) == DigitsToInt(SubSeq(x, at, at + DigitRun(x, at) - 1))
FirstInt(x) == IntFrom(x, FirstDigitAt(x))

\* Python's str < str : lexicographic on code points
RECURSIVE StrLess(_, _)
StrLess(a, b) ==
  IF b = <<>> THEN FALSE
  ELSE IF a = <<>> THEN TRUE
  ELSE IF a[1] = b[1] THEN StrLess(Drop(a, 1), Drop(b, 1))
  ELSE Ord(a[1]) < Ord(b[1])

\* ------------------------------------------------------------------------
\* Filename Parser: the three regular expressions, matched as re.match does
\* ------------------------------------------------------------------------
sHpi == <<"h","p","i">>
sBw == <<".","b","w">>
sNarrowPeakBb == <<".","n","a","r","r","o","w","P","e","a","k",".","b","b">>

NoMatch == [ok |-> FALSE, g1 |-> <<>>, g2 |-> <<>>, g3 |-> <<>>, g4 |-> <<>>]

\* length of the match of (\d+hpi) at position at, 0 when there is none
TimepointOf(s, at, n) ==
  IF n >= 1 /\ MatchAtI(s, at + n, sHpi) THEN n + 3 ELSE 0
TimepointAt(s, at) == TimepointOf(s, at, DigitRun(s, at))

\* re.match(r"^(\d+hpi)", filename, re.IGNORECASE)
ChromGroups(filename, n) ==
  IF n > 0 THEN [NoMatch EXCEPT !.ok = TRUE, !.g1 = Take(filename, n)]
  ELSE NoMatch
ChromMatch(filename) == ChromGroups(filename, TimepointAt(filename, 1))

\* lengths k of a last group such that rest[k:] is exactly the suffix
\* (IGNORECASE), for the tail "(.*?)SUFFIX$" or "(.*)SUFFIX$" of a pattern
TailLens(rest, suffix) ==
  { k \in 0..Len(rest) :
      Len(rest) - k = Len(suffix) /\ MatchAtI(rest, k + 1, suffix) }

\* "_(\d+hpi)_" directly after a first group of length i, the timepoint
\* match having length n: the position of the second underscore, 0 when the
\* pattern does not continue there
AfterTimepointOf(s, i, n) ==
  IF /\ i + 1 <= Len(s)
     /\ s[i + 1] = "_"
     /\ n > 0
     /\ i + 2 + n <= Len(s)
     /\ s[i + 2 + n] = "_"
  THEN i + 2 + n ELSE 0

AfterTimepoint(s, i) == AfterTimepointOf(s, i, TimepointAt(s, i + 2))

\* the groups, given the length i of the first, the underscore p after the
\* timepoint, the length j of the third and the length k of the fourth
Groups(s, i, p, j, k) ==
  [ok |-> TRUE,
   g1 |-> Take(s, i),
   g2 |-> SubSeq(s, i + 2, p - 1),
   g3 |-> SubSeq(s, p + 1, p + j),
   g4 |-> Take(Drop(s, p + 1 + j), k)]

\* lengths j of the non-greedy third group "(.*?)_" of the signal pattern
\* after the underscore at p that let the rest of the pattern match
SignalSourceLens(s, p) ==
  { j \in 0..(Len(s) - p) :
      /\ p > 0
      /\ p + 1 + j <= Len(s)
      /\ s[p + 1 + j] = "_"
      /\ TailLens(Drop(s, p + 1 + j), sBw) # {} }

\* lengths i of the non-greedy first group that let the pattern match
SignalMarkLens(s) ==
  { i \in 0..Len(s) : SignalSourceLens(s, AfterTimepoint(s, i)) # {} }

SignalGroups3(s, i, p, j) ==
  Groups(s, i, p, j, Min(TailLens(Drop(s, p + 1 + j), sBw)))
SignalGroups2(s, i, p) == SignalGroups3(s, i, p, Min(SignalSourceLens(s, p)))
SignalGroups1(s, i) == SignalGroups2(s, i, AfterTimepoint(s, i))

\* re.match(r"^(.*?)_(\d+hpi)_(.*?)_(.*?)\.bw$", filename, re.IGNORECASE)
SignalMatch(filename) ==
  IF SignalMarkLens(filename) = {} THEN NoMatch
  ELSE SignalGroups1(filename, Min(SignalMarkLens(filename)))

\* number of characters of [a-zA-Z0-9]+ from position at (greedy)
RECURSIVE AlnumRun(_, _)
AlnumRun(s, at) ==
  IF at <= Len(s) /\ IsAlnum(s[at]) THEN 1 + AlnumRun(s, at + 1) ELSE 0

\* lengths of the third group "([a-zA-Z0-9]+)_" of the TF patterns after the
\* underscore at p that let the rest of the pattern match
TFSourceLens(s, p, suffix) ==
  { j \in 1..AlnumRun(s, p + 1) :
      /\ p > 0
      /\ p + 1 + j <= Len(s)
      /\ s[p + 1 + j] = "_"
      /\ TailLens(Drop(s, p + 1 + j), suffix) # {} }

TFNameLens(s, suffix) ==
  { i \in 0..Len(s) : TFSourceLens(s, AfterTimepoint(s, i), suffix) # {} }

\* the last group: "(.*)" takes the longest tail, "(.*?)" the shortest
TailLen(ks, greedy) == IF greedy THEN Max(ks) ELSE Min(ks)

TFGroups3(s, suffix, greedy, i, p, j) ==
  Groups(s, i, p, j, TailLen(TailLens(Drop(s, p + 1 + j), suffix), greedy))
TFGroups2(s, suffix, greedy, i, p) ==
  TFGroups3(s, suffix, greedy, i, p, Max(TFSourceLens(s, p, suffix)))
TFGroups1(s, suffix, greedy, i) ==
  TFGroups2(s, suffix, greedy, i, AfterTimepoint(s, i))

\* re.match(r"^(.*?)_(\d+hpi)_([a-zA-Z0-9]+)_(.*?)" + suffix + "$", ...) when
\* greedy is FALSE, and the pattern ending "(.*)" + suffix + "$" when TRUE
TFMatchWith(filename, suffix, greedy) ==
  IF TFNameLens(filename, suffix) = {} THEN NoMatch
  ELSE TFGroups1(filename, suffix, greedy, Min(TFNameLens(filename, suffix)))

\* lines 277-279: the "simple" pattern when the strict one did not match
TFRetry(match, filename, suffix) ==
  IF match.ok THEN match ELSE TFMatchWith(filename, suffix, TRUE)

\* lines 274-279
TFMatch(filename, suffix) ==
  TFRetry(TFMatchWith(filename, suffix, FALSE), filename, suffix)

\* ------------------------------------------------------------------------
\* Sorting and the set abstraction
\* ------------------------------------------------------------------------
\* list(a_set): the iteration order of a set of str (or of tuples of str)
\* follows the per-process string hash, so any order can come out
SetOrders(S) ==
  { o \in [1..Cardinality(S) -> S] :
      \A i, j \in 1..Cardinality(S) : i # j => o[i] # o[j] }

\* sorted(): a stable sort, elements with equal keys keep their list order
\* less[i, j]: the key of seq[i] is smaller than the key of seq[j]
StableSort(seq, less) ==
  LET n == Len(seq)
      before(j, i) == less[j, i] \/ (~less[i, j] /\ j < i)
      rank(i) == 1 + Cardinality({ j \in 1..n : j # i /\ before(j, i) })
  IN [r \in 1..n |-> seq[CHOOSE i \in 1..n : rank(i) = r]]

\* the timepoints compared as text, without the key
TimepointLessAsText(a, b) == StrLess(a, b)

\* key=lambda x: int(re.search(r'\d+', x).group())
TimepointLess(a, b) == FirstInt(a) < FirstInt(b)

\* key=lambda x: (x[0].lower(), x[1].lower()) on (tf_name, source_name)
FactorSourceLess(a, b) ==
  \/ StrLess(Lower(a[1]), Lower(b[1]))
  \/ (Lower(a[1]) = Lower(b[1]) /\ StrLess(Lower(a[2]), Lower(b[2])))

\* sorted(list(timepoints), key=...) for one iteration order of the set
SortedTimepoints(order) ==
  StableSort(order, [i \in 1..Len(order), j \in 1..Len(order) |->
                       TimepointLess(order[i], order[j])])
\* sorted(list(mark_sources))
SortedMarkSources(order) ==
  StableSort(order, [i \in 1..Len(order), j \in 1..Len(order) |->
                       StrLess(order[i], order[j])])
\* sorted(list(factor_sources), key=...)
SortedFactorSources(order) ==
  StableSort(order, [i \in 1..Len(order), j \in 1..Len(order) |->
                       FactorSourceLess(order[i], order[j])])

\* ------------------------------------------------------------------------
\* Tag Generator
\* ------------------------------------------------------------------------
\* f"t{tp.replace('hpi', '')}"
TimepointTag(tp) == <<"t">> \o ReplaceAll(tp, sHpi, <<>>)
\* f"ms{re.sub(r'[^a-zA-Z0-9]', '', ms)}"
MarkSourceTag(ms) == <<"m","s">> \o StripNonAlnum(ms)
\* f"fs{re.sub(..., fs_key[0])[:10]}{re.sub(..., fs_key[1])[:5]}"
FactorSourceTag(fs_key) ==
  <<"f","s">> \o Take(StripNonAlnum(fs_key[1]), 10)
              \o Take(StripNonAlnum(fs_key[2]), 5)

\* a dict comprehension over a sorted list: insertion-ordered key/tag pairs
TimepointTags(sorted) ==
  [i \in 1..Len(sorted) |-> [key |-> sorted[i], tag |-> TimepointTag(sorted[i])]]
MarkSourceTags(sorted) ==
  [i \in 1..Len(sorted) |-> [key |-> sorted[i], tag |-> MarkSourceTag(sorted[i])]]
FactorSourceTags(sorted) ==
  [i \in 1..Len(sorted) |-> [key |-> sorted[i], tag |-> FactorSourceTag(sorted[i])]]

\* tags[key]
Lookup(tags, key) == tags[CHOOSE i \in 1..Len(tags) : tags[i].key = key].tag

\* view_map = {"Signal": "sig", "Peaks": "pk"}
ViewTag(view_type) == IF view_type = "Signal" THEN <<"s","i","g">> ELSE <<"p","k">>

\* ------------------------------------------------------------------------
\* Record Emitter: derived fields
\* ------------------------------------------------------------------------
\* the visibility / color rule of a signal track
Style(visibility, color) == [visibility |-> visibility, color |-> color]
SignalStyle(mark) ==
  IF Upper(mark) = <<"I","N","P","U","T">> THEN Style("hide", "150,150,150")
  ELSE IF Contains(Upper(mark), <<"A","T","A","C">>) THEN Style("full", "153,50,204")
  ELSE IF \/ Contains(mark, <<"H","3","K","4","m","e","3">>)
          \/ Contains(mark, <<"H","3","K","9","a","c">>)
          \/ Contains(mark, <<"H","3","K","2","7","a","c">>)
          \/ Contains(mark, <<"H","3","K","1","8","a","c">>)
       THEN Style("hide", "0,128,0")
  ELSE IF \/ Contains(mark, <<"H","3","K","9","m","e","3">>)
          \/ Contains(mark, <<"H","3","K","2","7","m","e","3">>)
       THEN Style("hide", "255,0,0")
  ELSE IF Contains(mark, <<"H","2","A",".","Z">>) THEN Style("hide", "0,0,255")
  ELSE Style("hide", "128,128,128")

SignalIdLen == 50
TFIdLen == 60

\* re.sub(r'[^\w-]', '_', f"{parent}_{mark.replace('.', 'z')}_{tp}_{source}")[:50]
SignalTrackId(parent, mark, timepoint, source) ==
  Take(CleanId(parent \o <<"_">> \o ReplaceAll(mark, <<".">>, <<"z">>)
               \o <<"_">> \o timepoint \o <<"_">> \o source), SignalIdLen)

\* f"{parent}_{clean_tf}_{clean_src}_{timepoint}_{view_tag}"[:60]
TFTrackId(parent, tf_name, source_name, timepoint, view_tag) ==
  Take(parent \o <<"_">> \o StripNonWord(tf_name) \o <<"_">>
       \o StripNonWord(source_name) \o <<"_">> \o timepoint
       \o <<"_">> \o view_tag, TFIdLen)

\* the constants of the main run
BASE_URL ==
  <<"http://e1-lugh2.science.psu.edu/data/ucsc_tracks/mahony/plasmodium-chrom-states/data">>
CHROM_STATE_PARENT_ID ==
  <<"P","f","a","l","C","h","r","o","m","S","t","a","t","e","s">>
HISTONE_PARENT_ID ==
  <<"P","f","a","l","H","i","s","t","o","n","e","M","a","r","k","s">>
TF_PARENT_ID == <<"P","f","a","l","T","F","s">>

\* one printed line: the format string k, its string arguments v, its
\* integer argument n and, on a subGroup line, its tag=value items
Line(k, v) == [k |-> k, v |-> v, n |-> 0, items |-> <<>>]
LineN(k, n) == [k |-> k, v |-> <<>>, n |-> n, items |-> <<>>]
LineItems(k, items) == [k |-> k, v |-> <<>>, n |-> 0, items |-> items]
Blank == Line("", <<>>)


\* ------------------------------------------------------------------------
\* Record Emitter: the blocks
\* ------------------------------------------------------------------------
\* lines 15-27
ChromParentBlock(parent) ==
  << Line("# --- Chromatin State Tracks ---", <<>>),
     Line("track {}", <<parent>>),
     Line("compositeTrack on", <<>>),
     Line("shortLabel IDC Chromatin States", <<>>),
     Line("longLabel P. falciparum chromatin states during the IDC", <<>>),
     Line("type bigBed", <<>>),
     Line("visibility dense", <<>>),
     Blank >>

\* lines 52-68
ChromChildBlock(parent, base_url, filename, subtrack_id, priority) ==
  << Line("track {}", <<parent \o <<"_">> \o subtrack_id>>),
     Line("parent {} on", <<parent>>),
     Line("type bigBed 9 +", <<>>),
     Line("shortLabel {} States", <<subtrack_id>>),
     Line("longLabel Chromatin States for {}", <<subtrack_id>>),
     Line("visibility dense", <<>>),
     Line("itemRgb on", <<>>),
     Line("bigDataUrl {}/{}", <<base_url, filename>>),
     LineN("priority {}", priority),
     Blank >>

\* " ".join([f"{tag}={val}" for val, tag in tags.items()])
Items(tags) == [i \in 1..Len(tags) |-> [tag |-> tags[i].tag, val |-> tags[i].key]]

\* lines 151-174
SignalParentBlock(parent, tp_tags, ms_tags) ==
  << Line("track {}", <<parent>>),
     Line("compositeTrack on", <<>>),
     Line("shortLabel Histone Marks", <<>>),
     Line("longLabel P. falciparum Histone Marks and Accessibility", <<>>),
     Line("type bigWig", <<>>),
     Line("visibility full", <<>>),
     Line("autoScale off", <<>>),
     Line("groupAutoScale on", <<>>),
     Line("group regulation", <<>>),
     Line("priority 20", <<>>),
     Line("dragAndDrop subTracks", <<>>),
     Line("noInherit on", <<>>),
     LineItems("subGroup1 timepoint Timepoint {}", Items(tp_tags)),
     LineItems("subGroup2 markSource Mark_Source {}", Items(ms_tags)),
     Line("dimensions dimX=timepoint dimY=markSource", <<>>),
     Line("sortOrder timepoint=+ markSource=+", <<>>),
     Blank >>

\* lines 180-229
SignalChildBlock(parent, base_url, data, tp_tags, ms_tags, priority) ==
  << Line("    track {}",
          <<SignalTrackId(parent, data.mark, data.timepoint, data.source)>>),
     Line("    parent {} on", <<parent>>),
     Line("    subGroups timepoint={} markSource={}",
          <<Lookup(tp_tags, data.timepoint), Lookup(ms_tags, data.mark_source_key)>>),
     Line("    type bigWig", <<>>),
     Line("    shortLabel {} {} ({})", <<data.mark, data.timepoint, data.source>>),
     Line("    longLabel {} signal at {} from {} ({})",
          <<data.mark, data.timepoint, data.source, data.source_id>>),
     Line("    visibility {}", <<<<SignalStyle(data.mark).visibility>>>>),
     Line("    color {}", <<<<SignalStyle(data.mark).color>>>>),
     Line("    autoScale off", <<>>),
     Line("    bigDataUrl {}/{}", <<base_url, data.filename>>),
     LineN("    priority {}", priority),
     Blank >>

\* " ".join([f"{tag}={key[0]}_{key[1]}" for key, tag in factor_source_tags.items()])
FactorItems(tags) ==
  [i \in 1..Len(tags) |->
     [tag |-> tags[i].tag, val |-> tags[i].key[1] \o <<"_">> \o tags[i].key[2]]]

\* lines 334-357
TFParentBlock(parent, tp_tags, fs_tags) ==
  << Line("track {}", <<parent>>),
     Line("compositeTrack on", <<>>),
     Line("shortLabel TFs", <<>>),
     Line("longLabel P. falciparum Transcription Factor ChIP-seq", <<>>),
     Line("visibility dense", <<>>),
     Line("group regulation", <<>>),
     Line("priority 30", <<>>),
     Line("dragAndDrop subTracks", <<>>),
     Line("noInherit on", <<>>),
     Line("subGroup1 view Views Signal={} Peaks={}", <<ViewTag("Signal"), ViewTag("Peaks")>>),
     LineItems("subGroup2 timepoint Timepoint {}", Items(tp_tags)),
     LineItems("subGroup3 factorSource Factor_Source {}", FactorItems(fs_tags)),
     Line("dimensions dimX=factorSource dimY=timepoint dimA=view", <<>>),
     Line("sortOrder view=+ factorSource=+ timepoint=+", <<>>),
     Line("visibilityViewDefaults {}=full {}=hide", <<ViewTag("Signal"), ViewTag("Peaks")>>),
     Blank >>

\* lines 363-408
TFChildBlock(parent, base_url, data, tp_tags, fs_tags, priority) ==
  LET labels ==
        << Line("    shortLabel {} ({}) {} {}",
                <<data.tf_name, data.source_name, data.timepoint,
                  <<IF data.view_type = "Signal" THEN "Sig" ELSE "Pks">> >>),
           Line("    longLabel TF {} ({}) at {} from {} - {}",
                <<data.tf_name, data.source_name, data.timepoint, data.source_id,
                  <<data.view_type>> >>) >>
  IN << Line("    track {}",
             <<TFTrackId(parent, data.tf_name, data.source_name, data.timepoint,
                         ViewTag(data.view_type))>>),
        Line("    parent {} on", <<parent>>),
        Line("    subGroups view={} factorSource={} timepoint={}",
             <<ViewTag(data.view_type), Lookup(fs_tags, data.factor_source_key),
               Lookup(tp_tags, data.timepoint)>>) >>
     \o (IF data.view_type = "Signal"
         THEN << Line("    type bigWig", <<>>) >> \o labels
              \o << Line("    color 0,0,170", <<>>),
                    Line("    autoScale off", <<>>),
                    Line("    groupAutoScale on", <<>>) >>
         ELSE << Line("    type bigBed 6 +", <<>>) >> \o labels
              \o << Line("    color 0,0,0", <<>>) >>)
     \o << Line("    bigDataUrl {}/{}", <<base_url, data.filename>>),
           LineN("    priority {}", priority),
           Blank >>

\* ------------------------------------------------------------------------
\* Inputs: list files
\* ------------------------------------------------------------------------
\* a list file: absent, or its lines; failAt = k > 0 when reading line k
\* raises something other than FileNotFoundError (0: the file reads well)
NoFile == [exists |-> FALSE, lines |-> <<>>, failAt |-> 0]

SeqsUpTo(S, n) == UNION { [1..k -> S] : k \in 0..n }

ReadableFiles(catalog, n) ==
  { [exists |-> TRUE, lines |-> l, failAt |-> 0] : l \in SeqsUpTo(catalog, n) }

FailingFiles(catalog, n) ==
  UNION { { [exists |-> TRUE, lines |-> l, failAt |-> f] : f \in 1..Len(l) }
          : l \in SeqsUpTo(catalog, n) }

MaxLines == 3
MaxFailLines == 2
MaxMainLines == 1

\* the lists a generator is called on directly
Files(catalog) ==
  {NoFile} \cup ReadableFiles(catalog, MaxLines) \cup FailingFiles(catalog, MaxFailLines)
\* the lists of a main run
MainFiles(catalog) == {NoFile} \cup ReadableFiles(catalog, MaxMainLines)

ChromCatalog ==
  { <<" ">>,
    <<"d","/","1","0","h","p","i","_","c","s",".","b","b">>,
    <<"s","t","a","t","e","s","_","v","2",".","b","b">>,
    <<"2","0","H","P","I",".","b","b">> }

SignalCatalog ==
  { <<>>,
    <<"H","3","K","4","m","e","3","_","1","0","h","p","i",".","b","w">>,
    <<"d","/","H","3","K","4","m","e","3","_","1","0","h","p","i","_","L","a","b","_","a",".","b","w">>,
    <<"A","T","A","C","_","2","0","h","p","i","_","L","a","b","_","b",".","b","w">> }

TFCatalog ==
  { <<>>,
    <<"A","P","2","_","1","0","h","p","i","_","L","a","b","_","x",".","b","e","d">>,
    <<"A","P","2","_","1","0","h","p","i","_","L","a","-","b","_","x",".","b","w">>,
    <<"d","/","A","P","2","_","1","0","h","p","i","_","L","a","b","_","x",".","n","a","r","r","o","w","P","e","a","k",".","b","b">>,
    <<"S","I","P","2","_","2","0","h","p","i","_","L","a","b","_","y","_","2",".","b","w">> }

\* lists whose values tie, collide or differ in case
MaxTagLines == 3

SignalTagCatalog ==
  { <<"H","3","K","4","m","e","3","_","2","0","h","p","i","_","L","a","b","_","x",".","b","w">>,
    <<"a","t","a","c","_","1","0","0","h","p","i","_","L","a","b","_","x",".","b","w">>,
    <<"H","3","K","4","m","e","3","L","_","0","2","0","h","p","i","_","a","b","_","x",".","b","w">>,
    <<"h","3","k","4","m","e","3","_","3","h","p","i","_","L","a","b","_","x",".","b","w">>,
    <<"A","T","A","C","_","I","N","P","U","T","_","2","0","H","P","I","_","L","a","b","_","x",".","b","w">> }

TFTagCatalog ==
  { <<"A","P","2","-","G","_","2","0","h","p","i","_","L","a","b","_","x",".","b","w">>,
    <<"a","p","2","-","g","_","1","0","0","h","p","i","_","L","a","b","_","x",".","n","a","r","r","o","w","P","e","a","k",".","b","b">>,
    <<"A","P","2","G","_","0","2","0","h","p","i","_","L","a","b","_","x",".","b","w">>,
    <<"S","I","P","2","_","3","h","p","i","_","L","a","b","1","2","a","_","x",".","b","w">>,
    <<"S","I","P","2","_","3","h","p","i","_","L","a","b","1","2","b","_","x",".","b","w">> }

\* ------------------------------------------------------------------------
\* State
\* ------------------------------------------------------------------------
VARIABLES
  entry,              \* what was started: "main", or one generator called directly
  files,              \* the list files, by category
  gen,                \* the generator running ("none" after the main run)
  pc,                 \* its position: begin, open, read, emit, return
  idx,                \* lines of f_list consumed so far
  subtrack_data,      \* the parsed records, in input order
  timepoints,         \* set of observed timepoints
  mark_sources,       \* set of observed "mark_source" keys (signal)
  factor_sources,     \* set of observed (tf_name, source_name) keys (TF)
  timepoint_tags,     \* dict value -> tag, in insertion order
  mark_source_tags,
  factor_source_tags,
  dataIdx,            \* records emitted so far in the second pass
  priority_counter,
  out,                \* standard output, a sequence of lines
  callAt,             \* Len(out) when the generator now running was called
  run,                \* 1, or 2 when the same command line is run again
  prevOut             \* the output of the previous run

vars == << entry, files, gen, pc, idx, subtrack_data, timepoints, mark_sources,
           factor_sources, timepoint_tags, mark_source_tags, factor_source_tags,
           dataIdx, priority_counter, out, callAt, run, prevOut >>

locals == << subtrack_data, timepoints, mark_sources, factor_sources,
             timepoint_tags, mark_source_tags, factor_source_tags, dataIdx >>

ListPath(g) == << <<g>> >>
File == files[gen]
\* the next line of f_list, stripped, and its base name
FullPath == Strip(File.lines[idx + 1])
Filename == Basename(FullPath)
CanRead == pc = "read" /\ idx < Len(File.lines) /\ File.failAt # idx + 1
Say(ls) == out' = out \o ls

Start(e, fs) ==
  /\ entry = e
  /\ files = fs
  /\ gen = (IF e = "main" THEN "chrom" ELSE e)
  /\ pc = "begin"
  /\ idx = 0
  /\ subtrack_data = <<>>
  /\ timepoints = {}
  /\ mark_sources = {}
  /\ factor_sources = {}
  /\ timepoint_tags = <<>>
  /\ mark_source_tags = <<>>
  /\ factor_source_tags = <<>>
  /\ dataIdx = 0
  /\ priority_counter = 0
  /\ out = <<>>
  /\ callAt = 0
  /\ run = 1
  /\ prevOut = <<>>

Only(g, f) == [c \in {"chrom", "signal", "tf"} |-> IF c = g THEN f ELSE NoFile]

\* ------------------------------------------------------------------------
\* create_chrom_state_trackdb
\* ------------------------------------------------------------------------
\* lines 15-31: the header and the parent block come before the file is opened
ChromBegin ==
  /\ gen = "chrom" /\ pc = "begin"
  /\ Say(ChromParentBlock(CHROM_STATE_PARENT_ID))
  /\ priority_counter' = 1
  /\ pc' = "open"
  /\ UNCHANGED << entry, files, gen, idx, locals, callAt, run, prevOut >>

\* line 33 raising FileNotFoundError, lines 72-73
ChromOpenMissing ==
  /\ gen = "chrom" /\ pc = "open" /\ ~File.exists
  /\ Say(<< Line("# Error: Input file not found at {}", ListPath("chrom_state_list")) >>)
  /\ pc' = "return"
  /\ UNCHANGED << entry, files, gen, idx, locals, priority_counter, callAt, run, prevOut >>

\* line 33
ChromOpen ==
  /\ gen = "chrom" /\ pc = "open" /\ File.exists
  /\ pc' = "read"
  /\ idx' = 0
  /\ UNCHANGED << entry, files, gen, locals, priority_counter, out, callAt, run, prevOut >>

\* lines 74-75: any other exception while reading
ChromReadError ==
  /\ gen = "chrom" /\ pc = "read" /\ File.failAt = idx + 1
  /\ Say(<< Line("# An error occurred: {e}", <<>>) >>)
  /\ pc' = "return"
  /\ UNCHANGED << entry, files, gen, idx, locals, priority_counter, callAt, run, prevOut >>

\* lines 35-37
ChromBlank ==
  /\ gen = "chrom" /\ CanRead
  /\ FullPath = <<>>
  /\ idx' = idx + 1
  /\ UNCHANGED << entry, files, gen, pc, locals, priority_counter, out, callAt, run, prevOut >>

\* ChromSkip with the counter incremented before the continue
ChromSkipTakesNumber ==
  /\ gen = "chrom" /\ CanRead
  /\ FullPath # <<>>
  /\ ~ChromMatch(Filename).ok
  /\ Say(<< Line("# Warning: Could not extract identifier from filename: {}. Skipping.",
                 <<Filename>>) >>)
  /\ priority_counter' = priority_counter + 1
  /\ idx' = idx + 1
  /\ UNCHANGED << entry, files, gen, pc, locals, callAt, run, prevOut >>

\* lines 40-47
ChromSkip ==
  /\ gen = "chrom" /\ CanRead
  /\ FullPath # <<>>
  /\ ~ChromMatch(Filename).ok
  /\ Say(<< Line("# Warning: Could not extract identifier from filename: {}. Skipping.",
                 <<Filename>>) >>)
  /\ idx' = idx + 1
  /\ UNCHANGED << entry, files, gen, pc, locals, priority_counter, callAt, run, prevOut >>

\* lines 40-70
ChromChild ==
  /\ gen = "chrom" /\ CanRead
  /\ FullPath # <<>>
  /\ ChromMatch(Filename).ok
  /\ \E match \in {ChromMatch(Filename)} :
       Say(ChromChildBlock(CHROM_STATE_PARENT_ID, BASE_URL, Filename,
                           match.g1, priority_counter))
  /\ priority_counter' = priority_counter + 1
  /\ idx' = idx + 1
  /\ UNCHANGED << entry, files, gen, pc, locals, callAt, run, prevOut >>

\* the for loop ends, the function returns
ChromEnd ==
  /\ gen = "chrom" /\ pc = "read"
  /\ idx = Len(File.lines)
  /\ pc' = "return"
  /\ UNCHANGED << entry, files, gen, idx, locals, priority_counter, out, callAt, run, prevOut >>

\* ------------------------------------------------------------------------
\* create_signal_trackdb
\* ------------------------------------------------------------------------
\* lines 89-93
SignalBegin ==
  /\ gen = "signal" /\ pc = "begin"
  /\ Say(<< Line("# --- Histone Mark / Signal Tracks (with Subgroups) ---", <<>>) >>)
  /\ subtrack_data' = <<>>
  /\ timepoints' = {}
  /\ mark_sources' = {}
  /\ pc' = "open"
  /\ UNCHANGED << entry, files, gen, idx, factor_sources, timepoint_tags,
                  mark_source_tags, factor_source_tags, dataIdx,
                  priority_counter, callAt, run, prevOut >>

\* line 97 raising FileNotFoundError, lines 130-132
SignalOpenMissing ==
  /\ gen = "signal" /\ pc = "open" /\ ~File.exists
  /\ Say(<< Line("# Error: Signal track input file not found at {}",
                 ListPath("signal_list")) >>)
  /\ pc' = "return"
  /\ UNCHANGED << entry, files, gen, idx, locals, priority_counter, callAt, run, prevOut >>

\* line 97
SignalOpen ==
  /\ gen = "signal" /\ pc = "open" /\ File.exists
  /\ pc' = "read"
  /\ idx' = 0
  /\ UNCHANGED << entry, files, gen, locals, priority_counter, out, callAt, run, prevOut >>

\* SignalReadError without its return: the function goes on with what it has
SignalReadErrorGoesOn ==
  /\ gen = "signal" /\ pc = "read" /\ File.failAt = idx + 1
  /\ Say(<< Line("# An error occurred during the first pass of signal tracks: {e}", <<>>) >>)
  /\ idx' = Len(File.lines)
  /\ UNCHANGED << entry, files, gen, pc, locals, priority_counter, callAt, run, prevOut >>

\* lines 133-135
SignalReadError ==
  /\ gen = "signal" /\ pc = "read" /\ File.failAt = idx + 1
  /\ Say(<< Line("# An error occurred during the first pass of signal tracks: {e}", <<>>) >>)
  /\ pc' = "return"
  /\ UNCHANGED << entry, files, gen, idx, locals, priority_counter, callAt, run, prevOut >>

\* lines 99-100
SignalBlank ==
  /\ gen = "signal" /\ CanRead
  /\ FullPath = <<>>
  /\ idx' = idx + 1
  /\ UNCHANGED << entry, files, gen, pc, locals, priority_counter, out, callAt, run, prevOut >>

\* SignalSkip with break in the place of continue
SignalSkipBreaks ==
  /\ gen = "signal" /\ CanRead
  /\ FullPath # <<>>
  /\ ~SignalMatch(Filename).ok
  /\ Say(<< Line("# Warning: Could not parse signal filename: {}. Skipping.",
                 <<Filename>>) >>)
  /\ idx' = Len(File.lines)
  /\ UNCHANGED << entry, files, gen, pc, locals, priority_counter, callAt, run, prevOut >>

\* lines 102-108
SignalSkip ==
  /\ gen = "signal" /\ CanRead
  /\ FullPath # <<>>
  /\ ~SignalMatch(Filename).ok
  /\ Say(<< Line("# Warning: Could not parse signal filename: {}. Skipping.",
                 <<Filename>>) >>)
  /\ idx' = idx + 1
  /\ UNCHANGED << entry, files, gen, pc, locals, priority_counter, callAt, run, prevOut >>

\* lines 110-128: the record of one matched filename
SignalRecordOf(filename, mark, timepoint, source, source_id) ==
  [filename |-> filename,
   mark |-> mark,
   timepoint |-> timepoint,
   source |-> source,
   source_id |-> source_id,
   mark_source_key |-> mark \o <<"_">> \o source]
SignalRecordFrom(filename, m) ==
  SignalRecordOf(filename, ReplaceAll(m.g1, <<"-">>, <<".">>), m.g2, m.g3, m.g4)
SignalRecord(filename) == SignalRecordFrom(filename, SignalMatch(filename))

\* lines 102-128
SignalParse ==
  /\ gen = "signal" /\ CanRead
  /\ FullPath # <<>>
  /\ SignalMatch(Filename).ok
  /\ \E data \in {SignalRecord(Filename)} :
       /\ timepoints' = timepoints \cup {data.timepoint}
       /\ mark_sources' = mark_sources \cup {data.mark_source_key}
       /\ subtrack_data' = Append(subtrack_data, data)
  /\ idx' = idx + 1
  /\ UNCHANGED << entry, files, gen, pc, factor_sources, timepoint_tags,
                  mark_source_tags, factor_source_tags, dataIdx,
                  priority_counter, out, callAt, run, prevOut >>

\* lines 137-139
SignalEmpty ==
  /\ gen = "signal" /\ pc = "read"
  /\ idx = Len(File.lines)
  /\ subtrack_data = <<>>
  /\ Say(<< Line("# No valid signal track data found in {}", ListPath("signal_list")) >>)
  /\ pc' = "return"
  /\ UNCHANGED << entry, files, gen, idx, locals, priority_counter, callAt, run, prevOut >>

\* lines 143-177: sort, tag, the parent block, the counter for the subtracks
SignalParent ==
  /\ gen = "signal" /\ pc = "read"
  /\ idx = Len(File.lines)
  /\ subtrack_data # <<>>
  /\ \E tpOrder \in SetOrders(timepoints), msOrder \in SetOrders(mark_sources) :
       /\ timepoint_tags' = TimepointTags(SortedTimepoints(tpOrder))
       /\ mark_source_tags' = MarkSourceTags(SortedMarkSources(msOrder))
  /\ Say(SignalParentBlock(HISTONE_PARENT_ID, timepoint_tags', mark_source_tags'))
  /\ priority_counter' = 21
  /\ dataIdx' = 0
  /\ pc' = "emit"
  /\ UNCHANGED << entry, files, gen, idx, subtrack_data, timepoints, mark_sources,
                  factor_sources, factor_source_tags, callAt, run, prevOut >>

\* lines 178-230, one record
SignalChild ==
  /\ gen = "signal" /\ pc = "emit"
  /\ dataIdx < Len(subtrack_data)
  /\ Say(SignalChildBlock(HISTONE_PARENT_ID, BASE_URL, subtrack_data[dataIdx + 1],
                          timepoint_tags, mark_source_tags, priority_counter))
  /\ priority_counter' = priority_counter + 1
  /\ dataIdx' = dataIdx + 1
  /\ UNCHANGED << entry, files, gen, pc, idx, subtrack_data, timepoints, mark_sources,
                  factor_sources, timepoint_tags, mark_source_tags,
                  factor_source_tags, callAt, run, prevOut >>

\* the second loop ends, the function returns
SignalEnd ==
  /\ gen = "signal" /\ pc = "emit"
  /\ dataIdx = Len(subtrack_data)
  /\ pc' = "return"
  /\ UNCHANGED << entry, files, gen, idx, locals, priority_counter, out, callAt, run, prevOut >>

\* ------------------------------------------------------------------------
\* the main run (lines 442-448): chromatin states, then signal; the TF call
\* is commented out
\* ------------------------------------------------------------------------
MainCallSignal ==
  /\ entry = "main" /\ gen = "chrom" /\ pc = "return"
  /\ gen' = "signal"
  /\ pc' = "begin"
  /\ idx' = 0
  /\ callAt' = Len(out)
  /\ UNCHANGED << entry, files, locals, priority_counter, out, run, prevOut >>

MainExit ==
  /\ entry = "main" /\ gen = "signal" /\ pc = "return"
  /\ gen' = "none"
  /\ pc' = "exit"
  /\ UNCHANGED << entry, files, idx, locals, priority_counter, out, callAt, run, prevOut >>


\* ------------------------------------------------------------------------
\* create_tf_trackdb
\* ------------------------------------------------------------------------
\* lines 264-272: the view type of a filename, "" when its suffix is unknown
TFViewType(filename) ==
  IF EndsWith(filename, sNarrowPeakBb) THEN "Peaks"
  ELSE IF EndsWith(filename, sBw) THEN "Signal"
  ELSE ""

\* lines 274-279: both patterns on the suffix of the view type
TFParse(filename) ==
  TFMatch(filename, IF TFViewType(filename) = "Peaks" THEN sNarrowPeakBb ELSE sBw)

\* lines 284-305
TFRecordFrom(filename, m) ==
  [filename |-> filename,
   tf_name |-> m.g1,
   timepoint |-> m.g2,
   source_name |-> m.g3,
   source_id |-> m.g4,
   view_type |-> TFViewType(filename),
   factor_source_key |-> <<m.g1, m.g3>>]
TFRecord(filename) == TFRecordFrom(filename, TFParse(filename))

\* lines 244-251
TFBegin ==
  /\ gen = "tf" /\ pc = "begin"
  /\ Say(<< Line("# --- Transcription Factor (TF) Tracks (with combined Factor_Source subgroup) ---",
                 <<>>) >>)
  /\ subtrack_data' = <<>>
  /\ factor_sources' = {}
  /\ timepoints' = {}
  /\ pc' = "open"
  /\ UNCHANGED << entry, files, gen, idx, mark_sources, timepoint_tags,
                  mark_source_tags, factor_source_tags, dataIdx,
                  priority_counter, callAt, run, prevOut >>

\* line 255 raising FileNotFoundError, lines 307-309
TFOpenMissing ==
  /\ gen = "tf" /\ pc = "open" /\ ~File.exists
  /\ Say(<< Line("# Error: TF track input file not found at {}", ListPath("tf_list")) >>)
  /\ pc' = "return"
  /\ UNCHANGED << entry, files, gen, idx, locals, priority_counter, callAt, run, prevOut >>

\* line 255
TFOpen ==
  /\ gen = "tf" /\ pc = "open" /\ File.exists
  /\ pc' = "read"
  /\ idx' = 0
  /\ UNCHANGED << entry, files, gen, locals, priority_counter, out, callAt, run, prevOut >>

\* lines 310-312
TFReadError ==
  /\ gen = "tf" /\ pc = "read" /\ File.failAt = idx + 1
  /\ Say(<< Line("# An error occurred during the first pass of TF tracks: {e}", <<>>) >>)
  /\ pc' = "return"
  /\ UNCHANGED << entry, files, gen, idx, locals, priority_counter, callAt, run, prevOut >>

\* lines 257-258
TFBlank ==
  /\ gen = "tf" /\ CanRead
  /\ FullPath = <<>>
  /\ idx' = idx + 1
  /\ UNCHANGED << entry, files, gen, pc, locals, priority_counter, out, callAt, run, prevOut >>

\* lines 260-272
TFUnknownType ==
  /\ gen = "tf" /\ CanRead
  /\ FullPath # <<>>
  /\ TFViewType(Filename) = ""
  /\ Say(<< Line("# Warning: Unknown file type for TF track: {}. Skipping.",
                 <<Filename>>) >>)
  /\ idx' = idx + 1
  /\ UNCHANGED << entry, files, gen, pc, locals, priority_counter, callAt, run, prevOut >>

\* lines 274-282
TFSkip ==
  /\ gen = "tf" /\ CanRead
  /\ FullPath # <<>>
  /\ TFViewType(Filename) # ""
  /\ ~TFParse(Filename).ok
  /\ Say(<< Line("# Warning: Could not parse TF filename: {} with pattern. Skipping.",
                 <<Filename>>) >>)
  /\ idx' = idx + 1
  /\ UNCHANGED << entry, files, gen, pc, locals, priority_counter, callAt, run, prevOut >>

\* lines 260-305
TFParseLine ==
  /\ gen = "tf" /\ CanRead
  /\ FullPath # <<>>
  /\ TFViewType(Filename) # ""
  /\ TFParse(Filename).ok
  /\ \E data \in {TFRecord(Filename)} :
       /\ factor_sources' = factor_sources \cup {data.factor_source_key}
       /\ timepoints' = timepoints \cup {data.timepoint}
       /\ subtrack_data' = Append(subtrack_data, data)
  /\ idx' = idx + 1
  /\ UNCHANGED << entry, files, gen, pc, mark_sources, timepoint_tags,
                  mark_source_tags, factor_source_tags, dataIdx,
                  priority_counter, out, callAt, run, prevOut >>

\* lines 314-316
TFEmpty ==
  /\ gen = "tf" /\ pc = "read"
  /\ idx = Len(File.lines)
  /\ subtrack_data = <<>>
  /\ Say(<< Line("# No valid TF track data found in {}", ListPath("tf_list")) >>)
  /\ pc' = "return"
  /\ UNCHANGED << entry, files, gen, idx, locals, priority_counter, callAt, run, prevOut >>

\* lines 321-361
TFParent ==
  /\ gen = "tf" /\ pc = "read"
  /\ idx = Len(File.lines)
  /\ subtrack_data # <<>>
  /\ \E fsOrder \in SetOrders(factor_sources), tpOrder \in SetOrders(timepoints) :
       /\ factor_source_tags' = FactorSourceTags(SortedFactorSources(fsOrder))
       /\ timepoint_tags' = TimepointTags(SortedTimepoints(tpOrder))
  /\ Say(TFParentBlock(TF_PARENT_ID, timepoint_tags', factor_source_tags'))
  /\ priority_counter' = 1
  /\ dataIdx' = 0
  /\ pc' = "emit"
  /\ UNCHANGED << entry, files, gen, idx, subtrack_data, timepoints, mark_sources,
                  factor_sources, mark_source_tags, callAt, run, prevOut >>

\* lines 362-409, one record
TFChild ==
  /\ gen = "tf" /\ pc = "emit"
  /\ dataIdx < Len(subtrack_data)
  /\ Say(TFChildBlock(TF_PARENT_ID, BASE_URL, subtrack_data[dataIdx + 1],
                      timepoint_tags, factor_source_tags, priority_counter))
  /\ priority_counter' = priority_counter + 1
  /\ dataIdx' = dataIdx + 1
  /\ UNCHANGED << entry, files, gen, pc, idx, subtrack_data, timepoints, mark_sources,
                  factor_sources, timepoint_tags, mark_source_tags,
                  factor_source_tags, callAt, run, prevOut >>

\* the second loop ends, the function returns
TFEnd ==
  /\ gen = "tf" /\ pc = "emit"
  /\ dataIdx = Len(subtrack_data)
  /\ pc' = "return"
  /\ UNCHANGED << entry, files, gen, idx, locals, priority_counter, out, callAt, run, prevOut >>

\* ------------------------------------------------------------------------
\* Specification: each generator called on its own list, and the main run
\* ------------------------------------------------------------------------
Init ==
  \/ \E f \in Files(ChromCatalog) : Start("chrom", Only("chrom", f))
  \/ \E f \in Files(SignalCatalog) : Start("signal", Only("signal", f))
  \/ \E f \in Files(TFCatalog) : Start("tf", Only("tf", f))
  \/ \E c \in MainFiles(ChromCatalog), g \in MainFiles(SignalCatalog) :
       Start("main", [chrom |-> c, signal |-> g, tf |-> NoFile])

ChromNext ==
  \/ ChromBegin \/ ChromOpenMissing \/ ChromOpen \/ ChromReadError
  \/ ChromBlank \/ ChromSkip \/ ChromChild \/ ChromEnd

SignalNext ==
  \/ SignalBegin \/ SignalOpenMissing \/ SignalOpen \/ SignalReadError
  \/ SignalBlank \/ SignalSkip \/ SignalParse \/ SignalEmpty
  \/ SignalParent \/ SignalChild \/ SignalEnd

TFNext ==
  \/ TFBegin \/ TFOpenMissing \/ TFOpen \/ TFReadError
  \/ TFBlank \/ TFUnknownType \/ TFSkip \/ TFParseLine \/ TFEmpty
  \/ TFParent \/ TFChild \/ TFEnd

Next == ChromNext \/ SignalNext \/ TFNext \/ MainCallSignal \/ MainExit

Spec == Init /\ [][Next]_vars


\* the signal and TF generators on readable lists of well-formed names
InitTags ==
  \/ \E f \in ReadableFiles(SignalTagCatalog, MaxTagLines) :
       Start("signal", Only("signal", f))
  \/ \E f \in ReadableFiles(TFTagCatalog, MaxTagLines) :
       Start("tf", Only("tf", f))

NextTags ==
  \/ SignalBegin \/ SignalOpen \/ SignalParse \/ SignalEmpty
  \/ SignalParent \/ SignalChild \/ SignalEnd
  \/ TFBegin \/ TFOpen \/ TFParseLine \/ TFEmpty
  \/ TFParent \/ TFChild \/ TFEnd

SpecTags == InitTags /\ [][NextTags]_vars

\* the same command line run a second time on the same files
Rerun ==
  /\ run = 1
  /\ pc = "return"
  /\ entry \in {"signal", "tf"}
  /\ prevOut' = out
  /\ run' = 2
  /\ pc' = "begin"
  /\ idx' = 0
  /\ subtrack_data' = <<>>
  /\ timepoints' = {}
  /\ mark_sources' = {}
  /\ factor_sources' = {}
  /\ timepoint_tags' = <<>>
  /\ mark_source_tags' = <<>>
  /\ factor_source_tags' = <<>>
  /\ dataIdx' = 0
  /\ priority_counter' = 0
  /\ out' = <<>>
  /\ callAt' = 0
  /\ UNCHANGED << entry, files, gen >>

SpecRerun == InitTags /\ [][NextTags \/ Rerun]_vars

\* ------------------------------------------------------------------------
\* Reading the output and the input back
\* ------------------------------------------------------------------------
Gens == {"chrom", "signal", "tf"}

\* what the generator now running has printed
CallOut == SubSeq(out, callAt + 1, Len(out))

HeaderFormats ==
  { "# --- Chromatin State Tracks ---",
    "# --- Histone Mark / Signal Tracks (with Subgroups) ---",
    "# --- Transcription Factor (TF) Tracks (with combined Factor_Source subgroup) ---" }
WarningFormats ==
  { "# Warning: Could not extract identifier from filename: {}. Skipping.",
    "# Warning: Could not parse signal filename: {}. Skipping.",
    "# Warning: Unknown file type for TF track: {}. Skipping.",
    "# Warning: Could not parse TF filename: {} with pattern. Skipping." }
MissingFormats ==
  { "# Error: Input file not found at {}",
    "# Error: Signal track input file not found at {}",
    "# Error: TF track input file not found at {}" }
ErrorFormats ==
  { "# An error occurred: {e}",
    "# An error occurred during the first pass of signal tracks: {e}",
    "# An error occurred during the first pass of TF tracks: {e}" }
EmptyFormats ==
  { "# No valid signal track data found in {}",
    "# No valid TF track data found in {}" }
DiagnosticFormats == WarningFormats \cup MissingFormats \cup ErrorFormats \cup EmptyFormats

IsComment(l) == l.k \in HeaderFormats \cup DiagnosticFormats
IsWarning(l) == l.k \in WarningFormats
\* the lines that open a block: the parent's compositeTrack line, a child's parent line
IsParentDecl(l) == l.k = "compositeTrack on"
IsChildDecl(l) == l.k \in {"parent {} on", "    parent {} on"}
IsChildUrl(l) == l.k \in {"bigDataUrl {}/{}", "    bigDataUrl {}/{}"}
IsChildPriority(l) == l.k \in {"priority {}", "    priority {}"}

Warnings(o) == SelectSeq(o, IsWarning)
ChildUrls(o) == SelectSeq(o, IsChildUrl)
ChildPriorities(o) == SelectSeq(o, IsChildPriority)
Declarations(o) == SelectSeq(o, LAMBDA l : IsParentDecl(l) \/ IsChildDecl(l))
NonComments(o) == SelectSeq(o, LAMBDA l : ~IsComment(l))

\* how the generator g treats one line of its list
NameOf(line) == Basename(Strip(line))
IsBlankLine(line) == Strip(line) = <<>>
Parses(g, filename) ==
  IF g = "chrom" THEN ChromMatch(filename).ok
  ELSE IF g = "signal" THEN SignalMatch(filename).ok
  ELSE TFViewType(filename) # "" /\ TFParse(filename).ok
WellFormed(g, line) == ~IsBlankLine(line) /\ Parses(g, NameOf(line))
Malformed(g, line) == ~IsBlankLine(line) /\ ~Parses(g, NameOf(line))

GoodLines(g, lines) == SelectSeq(lines, LAMBDA l : WellFormed(g, l))
BadLines(g, lines) == SelectSeq(lines, LAMBDA l : Malformed(g, l))
Names(lines) == [i \in 1..Len(lines) |-> NameOf(lines[i])]

BasePriority(g) == IF g = "signal" THEN 21 ELSE 1
\* the list was there and was read to its end
ReadAll == File.exists /\ File.failAt = 0 /\ idx = Len(File.lines)
Returned == gen \in Gens /\ pc = "return"

\* ------------------------------------------------------------------------
\* C1: in every generator the child blocks carry the priorities base,
\* base+1, ... in output order, the k-th child block being that of the k-th
\* well-formed line of the list; blank and malformed lines take no number,
\* and after a full pass every well-formed line has its block.
\* ------------------------------------------------------------------------
C1_PrioritiesFollowInput ==
  gen \in Gens =>
    LET prios == ChildPriorities(CallOut)
        urls == ChildUrls(CallOut)
        good == GoodLines(gen, File.lines)
    IN /\ Len(prios) = Len(urls)
       /\ Len(urls) <= Len(good)
       /\ \A k \in 1..Len(prios) :
            /\ prios[k].n = BasePriority(gen) + k - 1
            /\ urls[k].v[2] = NameOf(good[k])
       /\ (Returned /\ ReadAll => Len(urls) = Len(good))

\* a signal list "good, not good, good": the two blocks got 21 and 22
C1_Witness ==
  /\ gen = "signal" /\ pc = "return"
  /\ Len(File.lines) = 3
  /\ ~WellFormed("signal", File.lines[2])
  /\ Len(ChildPriorities(CallOut)) = 2
  /\ ChildPriorities(CallOut)[2].n = 22

\* ------------------------------------------------------------------------
\* C2: in each of the three categories, a list file that is there and in
\* which no line parses makes the generation end with a diagnostic comment
\* and print no declaration block, neither the parent's nor a child's.
\* ------------------------------------------------------------------------
C2_EmptyCategoryPrintsNoBlock ==
  (Returned /\ ReadAll /\ GoodLines(gen, File.lines) = <<>>) =>
    /\ Declarations(CallOut) = <<>>
    /\ NonComments(CallOut) = <<>>
    /\ CallOut[Len(CallOut)].k \in DiagnosticFormats

\* ------------------------------------------------------------------------
\* C3: in each of the three categories a missing list file makes the
\* generation return having printed comment lines only, and the main run
\* goes on: the category called next runs and prints its normal output.
\* ------------------------------------------------------------------------
NormalSignalOutput ==
  IF ~files["signal"].exists \/ files["signal"].failAt # 0
     \/ GoodLines("signal", files["signal"].lines) = <<>>
  THEN NonComments(CallOut) = <<>> /\ CallOut # <<>>
  ELSE Len(ChildUrls(CallOut)) = Len(GoodLines("signal", files["signal"].lines))

C3_MissingListOnlyComments ==
  /\ (Returned /\ ~File.exists) => NonComments(CallOut) = <<>>
  /\ (entry = "main" /\ ~files["chrom"].exists /\ gen = "none") => NormalSignalOutput

\* ------------------------------------------------------------------------
\* C4: a non-blank line whose base name does not match the category's
\* pattern gives exactly one warning comment, no child block and no entry
\* in a subgroup value set, and the pass goes on: the well-formed lines
\* after it are parsed and get their child blocks.
\* ------------------------------------------------------------------------
Consumed == IF File.exists THEN Take(File.lines, idx) ELSE <<>>

\* the records of well-formed lines, and the values of their fields
RecordsOf(g, lines) ==
  { (IF g = "signal" THEN SignalRecord(NameOf(lines[i]))
     ELSE TFRecord(NameOf(lines[i]))) : i \in 1..Len(lines) }
TimepointsOf(g, lines) == { d.timepoint : d \in RecordsOf(g, lines) }
MarkSourcesOf(lines) == { d.mark_source_key : d \in RecordsOf("signal", lines) }
FactorSourcesOf(lines) == { d.factor_source_key : d \in RecordsOf("tf", lines) }

C4_MalformedLineSkipped ==
  gen \in Gens =>
    LET warnings == Warnings(CallOut)
        urls == ChildUrls(CallOut)
        bad == BadLines(gen, Consumed)
        good == GoodLines(gen, Consumed)
    IN /\ Len(warnings) = Len(bad)
       /\ \A k \in 1..Len(warnings) : warnings[k].v = << NameOf(bad[k]) >>
       /\ Len(urls) <= Len(good)
       /\ gen = "signal" =>
            /\ timepoints = TimepointsOf(gen, good)
            /\ mark_sources = MarkSourcesOf(good)
       /\ gen = "tf" =>
            /\ timepoints = TimepointsOf(gen, good)
            /\ factor_sources = FactorSourcesOf(good)
       /\ (Returned /\ File.exists /\ File.failAt = 0) =>
            /\ idx = Len(File.lines)
            /\ Names(good) = [k \in 1..Len(urls) |-> urls[k].v[2]]

\* a list "malformed, well-formed" read to its end: one warning, one child block
C4_Witness ==
  /\ Returned
  /\ Len(File.lines) = 2
  /\ Malformed(gen, File.lines[1])
  /\ WellFormed(gen, File.lines[2])
  /\ Len(Warnings(CallOut)) = 1
  /\ Len(ChildUrls(CallOut)) = 1

\* ------------------------------------------------------------------------
\* C5: the signal and TF generators print in two phases: nothing but
\* comments until every line of the list has been read and parsed, then the
\* whole parent block with its subGroup lines, then the child blocks; a
\* failed or empty parse pass leaves neither a child block nor a part of
\* the parent block.
\* ------------------------------------------------------------------------
ParentBlockNow ==
  IF gen = "signal"
  THEN SignalParentBlock(HISTONE_PARENT_ID, timepoint_tags, mark_source_tags)
  ELSE TFParentBlock(TF_PARENT_ID, timepoint_tags, factor_source_tags)

StartsWith(o, block) == Len(o) >= Len(block) /\ SubSeq(o, 1, Len(block)) = block

C5_TwoPhaseEmission ==
  gen \in {"signal", "tf"} =>
    /\ pc \in {"begin", "open", "read"} => NonComments(CallOut) = <<>>
    /\ NonComments(CallOut) # <<>> =>
         /\ ReadAll
         /\ subtrack_data # <<>>
         /\ StartsWith(NonComments(CallOut), ParentBlockNow)
         /\ Len(Declarations(CallOut)) = 1 + dataIdx
         /\ IsParentDecl(Declarations(CallOut)[1])
    /\ (pc = "return" /\ (~ReadAll \/ subtrack_data = <<>>)) =>
         Declarations(CallOut) = <<>>

\* the first child block is out, after the complete parent block
C5_Witness ==
  /\ gen \in {"signal", "tf"} /\ pc = "emit" /\ dataIdx = 1
  /\ Len(Declarations(CallOut)) = 2
  /\ IsChildDecl(Declarations(CallOut)[2])

\* ------------------------------------------------------------------------
\* C6: within one subGroup declaration line no two values share a tag.
\* ------------------------------------------------------------------------
SubgroupLines(o) == SelectSeq(o, LAMBDA l : l.items # <<>>)

C6_TagsInjective ==
  \A n \in 1..Len(SubgroupLines(CallOut)) :
    LET items == SubgroupLines(CallOut)[n].items
    IN \A i, j \in 1..Len(items) :
         items[i].val # items[j].val => items[i].tag # items[j].tag

\* ------------------------------------------------------------------------
\* C7: a second run on the same list file prints the same lines as the first.
\* ------------------------------------------------------------------------
C7_RerunSameOutput == (run = 2 /\ Returned) => out = prevOut

\* ------------------------------------------------------------------------
\* C8: the timepoint subGroup line of the signal and of the TF parent block
\* lists every timepoint observed in the list once, in ascending order of
\* its number, whatever the order of the input.
\* ------------------------------------------------------------------------
IsTimepointLine(l) ==
  l.k \in {"subGroup1 timepoint Timepoint {}", "subGroup2 timepoint Timepoint {}"}
TimepointLines(o) == SelectSeq(o, IsTimepointLine)
Vals(items) == [i \in 1..Len(items) |-> items[i].val]

C8_TimepointsNumericOrder ==
  /\ (gen \in {"signal", "tf"} /\ pc = "emit") => Len(TimepointLines(CallOut)) = 1
  /\ \A n \in 1..Len(TimepointLines(CallOut)) :
       LET vals == Vals(TimepointLines(CallOut)[n].items)
       IN /\ \A i, j \in 1..Len(vals) : i < j =>
               /\ vals[i] # vals[j]
               /\ FirstInt(vals[i]) <= FirstInt(vals[j])
          /\ Range(vals) = TimepointsOf(gen, GoodLines(gen, File.lines))

\* 100hpi came first in the list and is listed after 20hpi
C8_Witness ==
  /\ gen = "signal" /\ pc = "emit"
  /\ subtrack_data[1].timepoint = <<"1","0","0","h","p","i">>
  /\ Vals(TimepointLines(CallOut)[1].items)
       = << <<"2","0","h","p","i">>, <<"1","0","0","h","p","i">> >>

\* ------------------------------------------------------------------------
\* C9: the mark+source values of the signal parent block and the
\* TF-name+source values of the TF parent block are listed by their
\* lower-cased text, ascending.
\* ------------------------------------------------------------------------
IsTextLine(l) ==
  l.k \in {"subGroup2 markSource Mark_Source {}",
           "subGroup3 factorSource Factor_Source {}"}

C9_TextCaseInsensitiveOrder ==
  \A n \in 1..Len(SelectSeq(CallOut, IsTextLine)) :
    LET vals == Vals(SelectSeq(CallOut, IsTextLine)[n].items)
    IN \A i, j \in 1..Len(vals) : i < j => ~StrLess(Lower(vals[j]), Lower(vals[i]))

\* ------------------------------------------------------------------------
\* C10: the visibility and color of every signal record are those of the
\* first matching rule of the table, each rule read without regard to the
\* letter case of the mark.
\* ------------------------------------------------------------------------
ContainsI(s, p) == Contains(Upper(s), Upper(p))

RuleTableStyle(mark) ==
  IF Upper(mark) = <<"I","N","P","U","T">> THEN Style("hide", "150,150,150")
  ELSE IF ContainsI(mark, <<"A","T","A","C">>) THEN Style("full", "153,50,204")
  ELSE IF \/ ContainsI(mark, <<"H","3","K","4","m","e","3">>)
          \/ ContainsI(mark, <<"H","3","K","9","a","c">>)
          \/ ContainsI(mark, <<"H","3","K","2","7","a","c">>)
          \/ ContainsI(mark, <<"H","3","K","1","8","a","c">>)
       THEN Style("hide", "0,128,0")
  ELSE IF \/ ContainsI(mark, <<"H","3","K","9","m","e","3">>)
          \/ ContainsI(mark, <<"H","3","K","2","7","m","e","3">>)
       THEN Style("hide", "255,0,0")
  ELSE IF ContainsI(mark, <<"H","2","A",".","Z">>) THEN Style("hide", "0,0,255")
  ELSE Style("hide", "128,128,128")

C10_StyleByRuleTable ==
  gen = "signal" =>
    LET vis == SelectSeq(CallOut, LAMBDA l : l.k = "    visibility {}")
        col == SelectSeq(CallOut, LAMBDA l : l.k = "    color {}")
    IN /\ Len(vis) = dataIdx /\ Len(col) = dataIdx
       /\ \A k \in 1..dataIdx :
            /\ vis[k].v = << <<RuleTableStyle(subtrack_data[k].mark).visibility>> >>
            /\ col[k].v = << <<RuleTableStyle(subtrack_data[k].mark).color>> >>

\* ------------------------------------------------------------------------
\* Reading the membership lines and the declaration lines back
\* ------------------------------------------------------------------------
sSignal == <<"S","i","g","n","a","l">>
sPeaks == <<"P","e","a","k","s">>

\* the subgroup dimensions of a generator, in the order of its membership line
Dimensions(g) ==
  IF g = "signal" THEN << "timepoint", "markSource" >>
  ELSE << "view", "factorSource", "timepoint" >>

IsMembershipLine(l) ==
  l.k \in {"    subGroups timepoint={} markSource={}",
           "    subGroups view={} factorSource={} timepoint={}"}
MembershipLines(o) == SelectSeq(o, IsMembershipLine)

\* the declaration line of a dimension, as printed
DeclarationFormat(g, dim) ==
  IF dim = "view" THEN "subGroup1 view Views Signal={} Peaks={}"
  ELSE IF dim = "markSource" THEN "subGroup2 markSource Mark_Source {}"
  ELSE IF dim = "factorSource" THEN "subGroup3 factorSource Factor_Source {}"
  ELSE IF g = "signal" THEN "subGroup1 timepoint Timepoint {}"
  ELSE "subGroup2 timepoint Timepoint {}"

\* what a declaration line declares: its words after the label are read
\* tag=value, as lines 165, 168 and 346 print them, so that line 345
\* declares the tags Signal and Peaks
DeclaredOn(l) ==
  IF l.k = "subGroup1 view Views Signal={} Peaks={}"
  THEN << [tag |-> sSignal, val |-> l.v[1]], [tag |-> sPeaks, val |-> l.v[2]] >>
  ELSE l.items
DeclaredLines(g, o, dim) == SelectSeq(o, LAMBDA l : l.k = DeclarationFormat(g, dim))
Declared(g, o, dim) ==
  IF DeclaredLines(g, o, dim) = <<>> THEN {}
  ELSE Range(DeclaredOn(DeclaredLines(g, o, dim)[1]))

\* the record's own value in a dimension, as the declaration line shows it
OwnValue(data, dim) ==
  IF dim = "timepoint" THEN data.timepoint
  ELSE IF dim = "markSource" THEN data.mark_source_key
  ELSE IF dim = "factorSource" THEN data.tf_name \o <<"_">> \o data.source_name
  ELSE IF data.view_type = "Signal" THEN sSignal ELSE sPeaks

\* the tag of the k-th child block in the n-th dimension
ChildTag(o, k, n) == MembershipLines(o)[k].v[n]

\* every child block printed so far has one membership line, and each of its
\* tags is declared, for the record's own value, on the parent's line of
\* that dimension
ChildTagsDeclared ==
  /\ Len(MembershipLines(CallOut)) = dataIdx
  /\ \A k \in 1..dataIdx : \A n \in 1..Len(Dimensions(gen)) :
       [tag |-> ChildTag(CallOut, k, n),
        val |-> OwnValue(subtrack_data[k], Dimensions(gen)[n])]
         \in Declared(gen, CallOut, Dimensions(gen)[n])

\* every tag declared in dimension n is on the membership line of some child
DeclaredTagsUsed(n) ==
  \A d \in Declared(gen, CallOut, Dimensions(gen)[n]) :
    \E k \in 1..dataIdx : ChildTag(CallOut, k, n) = d.tag

\* signal records with one mark+source and two timepoints
SameMarkSourceOtherTimepoint(i, j) ==
  /\ subtrack_data[i].mark_source_key = subtrack_data[j].mark_source_key
  /\ subtrack_data[i].timepoint # subtrack_data[j].timepoint
SharedMarkSourceTag ==
  gen = "signal" =>
    \A i, j \in 1..dataIdx : SameMarkSourceOtherTimepoint(i, j) =>
      /\ ChildTag(CallOut, i, 2) = ChildTag(CallOut, j, 2)
      /\ ChildTag(CallOut, i, 1) # ChildTag(CallOut, j, 1)

\* ------------------------------------------------------------------------
\* C11: in the signal and TF generators every tag of a child block's
\* membership line is the tag declared for the record's own value on the
\* parent's declaration line of that dimension, every declared tag of
\* every dimension is used by some child once all child blocks are out,
\* and signal records of one mark+source and different timepoints share
\* the markSource tag and differ in the timepoint tag.
\* ------------------------------------------------------------------------
C11_TagsDeclaredAndUsed ==
  (gen \in {"signal", "tf"} /\ pc \in {"emit", "return"}) =>
    /\ ChildTagsDeclared
    /\ SharedMarkSourceTag
    /\ (pc = "return" /\ dataIdx > 0) =>
         \A n \in 1..Len(Dimensions(gen)) : DeclaredTagsUsed(n)


====
